---- MODULE Spec2Model ----
(***************************************************************************)
(* Order-management request descriptors of the ftx REST client             *)
(* (src/rest/model/orders.rs): the Request contract (METHOD, PATH, AUTH,   *)
(* path()) of the twelve descriptors, their serde serialization rules, and *)
(* the decoding of OrderInfo.                                              *)
(*                                                                         *)
(* Text (field names, keys, paths, client ids, markets) is a sequence of   *)
(* one-character strings, so that renaming and formatting are computed     *)
(* character by character.                                                 *)
(***************************************************************************)
EXTENDS Integers, Sequences, FiniteSets, TLC

VARIABLES pc, call, req, method, path, auth, body, payload, decoded

vars == <<pc, call, req, method, path, auth, body, payload, decoded>>

(***************************************************************************)
(* Bounds of the model.                                                    *)
(***************************************************************************)
MaxId == 42
MaxDecimal == 2
MaxLimit == 1
MaxTime == 2

(***************************************************************************)
(* Rust field identifiers.                                                 *)
(***************************************************************************)
id == <<"i","d">>
market == <<"m","a","r","k","e","t">>
future == <<"f","u","t","u","r","e">>
type == <<"t","y","p","e">>
side == <<"s","i","d","e">>
price == <<"p","r","i","c","e">>
size == <<"s","i","z","e">>
reduce_only == <<"r","e","d","u","c","e","_","o","n","l","y">>
ioc == <<"i","o","c">>
post_only == <<"p","o","s","t","_","o","n","l","y">>
status == <<"s","t","a","t","u","s">>
filled_size == <<"f","i","l","l","e","d","_","s","i","z","e">>
remaining_size == <<"r","e","m","a","i","n","i","n","g","_","s","i","z","e">>
avg_fill_price == <<"a","v","g","_","f","i","l","l","_","p","r","i","c","e">>
liquidation == <<"l","i","q","u","i","d","a","t","i","o","n">>
created_at == <<"c","r","e","a","t","e","d","_","a","t">>
client_id == <<"c","l","i","e","n","t","_","i","d">>
retry_until_filled == <<"r","e","t","r","y","_","u","n","t","i","l","_","f","i","l","l","e","d">>
trigger_price == <<"t","r","i","g","g","e","r","_","p","r","i","c","e">>
order_price == <<"o","r","d","e","r","_","p","r","i","c","e">>
triggered_at == <<"t","r","i","g","g","e","r","e","d","_","a","t">>
error == <<"e","r","r","o","r">>
reject_on_price_band == <<"r","e","j","e","c","t","_","o","n","_","p","r","i","c","e","_","b","a","n","d">>
conditional_orders_only == <<"c","o","n","d","i","t","i","o","n","a","l","_","o","r","d","e","r","s","_","o","n","l","y">>
limit_orders_only == <<"l","i","m","i","t","_","o","r","d","e","r","s","_","o","n","l","y">>
limit == <<"l","i","m","i","t">>
start_time == <<"s","t","a","r","t","_","t","i","m","e">>
end_time == <<"e","n","d","_","t","i","m","e">>
trail_value == <<"t","r","a","i","l","_","v","a","l","u","e">>

(***************************************************************************)
(* The string literals of the PATH constants and of the format! calls.     *)
(***************************************************************************)
Orders == <<"/","o","r","d","e","r","s">>
OrdersId == <<"/","o","r","d","e","r","s","/","{","}">>
OrdersIdModify == <<"/","o","r","d","e","r","s","/","{","}","/","m","o","d","i","f","y">>
ConditionalOrders == <<"/","c","o","n","d","i","t","i","o","n","a","l","_","o","r","d","e","r","s">>
ConditionalOrdersId == <<"/","c","o","n","d","i","t","i","o","n","a","l","_","o","r","d","e","r","s","/","{","}">>
OrdersByClientId == <<"/","o","r","d","e","r","s","/","b","y","_","c","l","i","e","n","t","_","i","d","/","{","}">>
OrdersByClientIdModify == <<"/","o","r","d","e","r","s","/","b","y","_","c","l","i","e","n","t","_","i","d","/","{","}","/","m","o","d","i","f","y">>
OrdersHistory == <<"/","o","r","d","e","r","s","/","h","i","s","t","o","r","y">>

(***************************************************************************)
(* Characters.                                                             *)
(***************************************************************************)
LowerCase == <<"a","b","c","d","e","f","g","h","i","j","k","l","m","n","o","p","q","r","s","t","u","v","w","x","y","z">>
UpperCase == <<"A","B","C","D","E","F","G","H","I","J","K","L","M","N","O","P","Q","R","S","T","U","V","W","X","Y","Z">>
Digits == <<"0","1","2","3","4","5","6","7","8","9">>

to_ascii_uppercase(c) ==
    IF \E i \in 1..Len(LowerCase) : LowerCase[i] = c
    THEN UpperCase[CHOOSE i \in 1..Len(LowerCase) : LowerCase[i] = c]
    ELSE c

to_ascii_lowercase(c) ==
    IF \E i \in 1..Len(UpperCase) : UpperCase[i] = c
    THEN LowerCase[CHOOSE i \in 1..Len(UpperCase) : UpperCase[i] = c]
    ELSE c

(***************************************************************************)
(* Rust values.  A value carries its type as a tag.  The wire form of a    *)
(* scalar (string, decimal, bool, integer, enum) is the tagged scalar      *)
(* itself; an absent Option and a DateTime are converted when serialized.  *)
(***************************************************************************)
None == <<"None">>
Some(x) == <<"Some", x>>
Null == <<"null">>

Markets == { <<"B","T","C","-","P","E","R","P">>, <<"E","T","H","/","U","S","D">> }

ClientIds == { <<>>,
               <<"a","b","c","-","1">>,
               <<"4","2">>,
               <<"h","i","s","t","o","r","y">>,
               <<"4","2","/","m","o","d","i","f","y">>,
               <<"x"," ","y","%">> }

DateTimes == { <<"DateTime", s, n>> : s \in 0..MaxTime, n \in {0, 999} }

(* The values of a type, given as the tokens of its Rust spelling; a &str  *)
(* field draws from the markets or the client ids according to its name.   *)
RECURSIVE ValuesOf(_, _)
ValuesOf(name, ty) ==
    CASE ty[1] = "Option"      -> {None} \cup { Some(x) : x \in ValuesOf(name, Tail(ty)) }
      [] ty[1] = "&str"        -> { <<"str", s>> : s \in (IF name = market THEN Markets ELSE ClientIds) }
      [] ty[1] = "String"      -> { <<"str", s>> : s \in (IF name = client_id THEN ClientIds ELSE Markets) }
      [] ty[1] = "Id"          -> { <<"Id", n>> : n \in 0..MaxId }
      [] ty[1] = "Decimal"     -> { <<"Decimal", d>> : d \in 1..MaxDecimal }
      [] ty[1] = "usize"       -> { <<"usize", n>> : n \in 0..MaxLimit }
      [] ty[1] = "bool"        -> { <<"bool", b>> : b \in BOOLEAN }
      [] ty[1] = "Side"        -> { <<"Side", "buy">>, <<"Side", "sell">> }
      [] ty[1] = "OrderType"   -> { <<"OrderType", "market">>, <<"OrderType", "limit">> }
      [] ty[1] = "OrderStatus" -> { <<"OrderStatus", "new">> }
      [] ty[1] = "DateTime"    -> DateTimes

(***************************************************************************)
(* #[serde(rename_all = "camelCase")]: serde_derive's renaming of a field. *)
(* PascalCase drops each underscore and capitalizes the character after    *)
(* it (and the first one); camelCase lowers the first character of that.   *)
(***************************************************************************)
RECURSIVE PascalCase(_, _, _)
PascalCase(field, i, capitalize) ==
    IF i > Len(field) THEN <<>>
    ELSE IF field[i] = "_" THEN PascalCase(field, i + 1, TRUE)
    ELSE IF capitalize
         THEN <<to_ascii_uppercase(field[i])>> \o PascalCase(field, i + 1, FALSE)
         ELSE <<field[i]>> \o PascalCase(field, i + 1, FALSE)

(* A renaming that lowers the first character but keeps the underscores. *)
CamelCase_KeepsUnderscores(field) ==
    IF field = <<>> THEN field
    ELSE <<to_ascii_lowercase(field[1])>> \o Tail(field)

CamelCase(field) ==
    LET pascal == PascalCase(field, 1, TRUE)
    IN  IF pascal = <<>> THEN pascal
        ELSE <<to_ascii_lowercase(pascal[1])>> \o Tail(pascal)

(* What the derive macros fix at compile time for a struct: the name each *)
(* field is serialized under and deserialized from.                        *)
Derive(rename_all, fields) ==
    [ rename_all |-> rename_all,
      fields |-> [ i \in DOMAIN fields |->
                     [ fields[i] EXCEPT !.key = IF rename_all = "camelCase"
                                                THEN CamelCase(fields[i].name)
                                                ELSE fields[i].name ] ] ]

(***************************************************************************)
(* serde attributes of a field and of a struct.                            *)
(***************************************************************************)
Field(name, ty) == [name |-> name, ty |-> ty, skip |-> "no", with |-> "no", key |-> name]
SkipSerializing(f) == [f EXCEPT !.skip = "always"]
SkipIfNone(f) == [f EXCEPT !.skip = "Option::is_none"]
SerializeWithTimestamp(f) == [f EXCEPT !.with = "super::serialize_as_timestamp"]

(***************************************************************************)
(* The structs, field by field, with their serde attributes.               *)
(***************************************************************************)
OrderInfo ==
    Derive("camelCase",
      << Field(id, <<"Id">>),
         Field(market, <<"String">>),
         Field(future, <<"Option", "String">>),
         Field(type, <<"OrderType">>),
         Field(side, <<"Side">>),
         Field(price, <<"Option", "Decimal">>),
         Field(size, <<"Decimal">>),
         Field(reduce_only, <<"Option", "bool">>),
         Field(ioc, <<"Option", "bool">>),
         Field(post_only, <<"Option", "bool">>),
         Field(status, <<"OrderStatus">>),
         Field(filled_size, <<"Option", "Decimal">>),
         Field(remaining_size, <<"Option", "Decimal">>),
         Field(avg_fill_price, <<"Option", "Decimal">>),
         Field(liquidation, <<"Option", "bool">>),
         Field(created_at, <<"DateTime">>),
         Field(client_id, <<"Option", "String">>),
         Field(retry_until_filled, <<"Option", "bool">>),
         Field(trigger_price, <<"Option", "Decimal">>),
         Field(order_price, <<"Option", "Decimal">>),
         Field(triggered_at, <<"Option", "String">>),
         Field(error, <<"Option", "String">>) >> )

GetOpenOrders ==
    Derive("no",
      << SkipIfNone(Field(market, <<"Option", "&str">>)) >> )

(* PlaceOrder with price skipped when it is None, like every other Option. *)
PlaceOrder_PriceSkippedIfNone ==
    Derive("camelCase",
      << Field(market, <<"&str">>),
         Field(side, <<"Side">>),
         SkipIfNone(Field(price, <<"Option", "Decimal">>)),
         Field(type, <<"OrderType">>),
         Field(size, <<"Decimal">>),
         Field(reduce_only, <<"bool">>),
         Field(ioc, <<"bool">>),
         Field(post_only, <<"bool">>),
         SkipIfNone(Field(client_id, <<"Option", "&str">>)),
         Field(reject_on_price_band, <<"bool">>) >> )

PlaceOrder ==
    Derive("camelCase",
      << Field(market, <<"&str">>),
         Field(side, <<"Side">>),
         Field(price, <<"Option", "Decimal">>),
         Field(type, <<"OrderType">>),
         Field(size, <<"Decimal">>),
         Field(reduce_only, <<"bool">>),
         Field(ioc, <<"bool">>),
         Field(post_only, <<"bool">>),
         SkipIfNone(Field(client_id, <<"Option", "&str">>)),
         Field(reject_on_price_band, <<"bool">>) >> )

ModifyOrder ==
    Derive("camelCase",
      << SkipSerializing(Field(id, <<"Id">>)),
         SkipIfNone(Field(price, <<"Option", "Decimal">>)),
         SkipIfNone(Field(size, <<"Option", "Decimal">>)),
         SkipIfNone(Field(client_id, <<"Option", "&str">>)) >> )

GetOrder ==
    Derive("no",
      << SkipSerializing(Field(id, <<"Id">>)) >> )

CancelOrder ==
    Derive("no",
      << SkipSerializing(Field(id, <<"Id">>)) >> )

CancelTriggerOrder ==
    Derive("no",
      << SkipSerializing(Field(id, <<"Id">>)) >> )

CancelAllOrder ==
    Derive("camelCase",
      << SkipIfNone(Field(market, <<"Option", "&str">>)),
         SkipIfNone(Field(side, <<"Option", "Side">>)),
         SkipIfNone(Field(conditional_orders_only, <<"Option", "bool">>)),
         SkipIfNone(Field(limit_orders_only, <<"Option", "bool">>)) >> )

CancelOrderByClientId ==
    Derive("camelCase",
      << SkipSerializing(Field(client_id, <<"&str">>)) >> )

GetOrderByClientId ==
    Derive("camelCase",
      << SkipSerializing(Field(client_id, <<"&str">>)) >> )

(* GetOrderHistory without skip_serializing_if on limit. *)
GetOrderHistory_LimitNotSkipped ==
    Derive("no",
      << SkipIfNone(Field(market, <<"Option", "&str">>)),
         SkipIfNone(Field(side, <<"Option", "Side">>)),
         Field(limit, <<"Option", "usize">>),
         SerializeWithTimestamp(SkipIfNone(Field(start_time, <<"Option", "DateTime">>))),
         SerializeWithTimestamp(SkipIfNone(Field(end_time, <<"Option", "DateTime">>))) >> )

GetOrderHistory ==
    Derive("no",
      << SkipIfNone(Field(market, <<"Option", "&str">>)),
         SkipIfNone(Field(side, <<"Option", "Side">>)),
         SkipIfNone(Field(limit, <<"Option", "usize">>)),
         SerializeWithTimestamp(SkipIfNone(Field(start_time, <<"Option", "DateTime">>))),
         SerializeWithTimestamp(SkipIfNone(Field(end_time, <<"Option", "DateTime">>))) >> )

PlaceTriggerOrder ==
    Derive("camelCase",
      << Field(market, <<"&str">>),
         Field(side, <<"Side">>),
         Field(size, <<"Decimal">>),
         Field(type, <<"OrderType">>),
         Field(trigger_price, <<"Decimal">>),
         SkipIfNone(Field(reduce_only, <<"Option", "bool">>)),
         SkipIfNone(Field(retry_until_filled, <<"Option", "bool">>)),
         SkipIfNone(Field(order_price, <<"Option", "Decimal">>)),
         SkipIfNone(Field(trail_value, <<"Option", "Decimal">>)) >> )

(* ModifyOrderByClientId without skip_serializing on client_id. *)
ModifyOrderByClientId_ClientIdSent ==
    Derive("camelCase",
      << Field(client_id, <<"&str">>),
         SkipIfNone(Field(price, <<"Option", "Decimal">>)),
         SkipIfNone(Field(size, <<"Option", "Decimal">>)) >> )

ModifyOrderByClientId ==
    Derive("camelCase",
      << SkipSerializing(Field(client_id, <<"&str">>)),
         SkipIfNone(Field(price, <<"Option", "Decimal">>)),
         SkipIfNone(Field(size, <<"Option", "Decimal">>)) >> )

Descriptors ==
    { "GetOpenOrders", "PlaceOrder", "ModifyOrder", "GetOrder", "CancelOrder",
      "CancelTriggerOrder", "CancelAllOrder", "CancelOrderByClientId",
      "GetOrderByClientId", "GetOrderHistory", "PlaceTriggerOrder",
      "ModifyOrderByClientId" }

StructOf(T) ==
    CASE T = "GetOpenOrders"         -> GetOpenOrders
      [] T = "PlaceOrder"            -> PlaceOrder
      [] T = "ModifyOrder"           -> ModifyOrder
      [] T = "GetOrder"              -> GetOrder
      [] T = "CancelOrder"           -> CancelOrder
      [] T = "CancelTriggerOrder"    -> CancelTriggerOrder
      [] T = "CancelAllOrder"        -> CancelAllOrder
      [] T = "CancelOrderByClientId" -> CancelOrderByClientId
      [] T = "GetOrderByClientId"    -> GetOrderByClientId
      [] T = "GetOrderHistory"       -> GetOrderHistory
      [] T = "PlaceTriggerOrder"     -> PlaceTriggerOrder
      [] T = "ModifyOrderByClientId" -> ModifyOrderByClientId
      [] T = "OrderInfo"             -> OrderInfo

(* Every value of a struct: one value of its type for each field (all the  *)
(* fields are pub, so a caller can write any struct literal).              *)
RECURSIVE StructValues(_, _)
StructValues(fields, n) ==
    IF n = 0 THEN { <<>> }
    ELSE { (fields[n].name :> x) @@ v :
             x \in ValuesOf(fields[n].name, fields[n].ty),
             v \in StructValues(fields, n - 1) }

ValuesOfStruct(T) == StructValues(StructOf(T).fields, Len(StructOf(T).fields))

(***************************************************************************)
(* Serialization (derive(Serialize)).                                      *)
(***************************************************************************)
(* DateTime::timestamp(): the whole seconds since the epoch, as an i64. *)
serialize_as_timestamp(dt) == <<"i64", dt[2][2]>>

(* An Option serializes as null (None) or as its content (Some). *)
SerializeValue(x) ==
    IF x = None THEN Null
    ELSE IF x[1] = "Some" THEN x[2]
    ELSE x

SerializeField(f, x) ==
    IF f.with = "super::serialize_as_timestamp"
    THEN serialize_as_timestamp(x)
    ELSE SerializeValue(x)

(* skip_serializing_if ignored: only skip_serializing skips. *)
Skipped_IfNoneIgnored(f, x) == f.skip = "always"

Skipped(f, x) ==
    \/ f.skip = "always"
    \/ f.skip = "Option::is_none" /\ x = None

(* The serialized map of a struct value: the fields that are not skipped, *)
(* each under its serde name.                                              *)
Serialize(struct, v) ==
    LET kept == { i \in 1..Len(struct.fields) :
                    ~Skipped(struct.fields[i], v[struct.fields[i].name]) }
    IN  [ k \in { struct.fields[i].key : i \in kept } |->
            LET i == CHOOSE j \in kept : struct.fields[j].key = k
            IN  SerializeField(struct.fields[i], v[struct.fields[i].name]) ]

(***************************************************************************)
(* The Request contract: METHOD, PATH, AUTH and path().                    *)
(***************************************************************************)
(* Display of an Id: its decimal digits. *)
RECURSIVE DisplayId(_)
DisplayId(n) ==
    IF n < 10 THEN <<Digits[n + 1]>>
    ELSE DisplayId(n \div 10) \o <<Digits[(n % 10) + 1]>>

(* Display of a &str: its characters. *)
DisplayStr(s) == s

(* format!(template, arg) with one "{}" in the template. *)
format(template, arg) ==
    LET at == CHOOSE i \in 1..(Len(template) - 1) :
                  /\ template[i] = "{" /\ template[i + 1] = "}"
                  /\ \A j \in 1..(i - 1) : ~(template[j] = "{" /\ template[j + 1] = "}")
    IN  SubSeq(template, 1, at - 1) \o arg \o SubSeq(template, at + 2, Len(template))

(* The order history fetched with POST. *)
METHOD_HistoryByPost(T) ==
    CASE T = "GetOpenOrders"         -> "GET"
      [] T = "PlaceOrder"            -> "POST"
      [] T = "ModifyOrder"           -> "POST"
      [] T = "GetOrder"              -> "GET"
      [] T = "CancelOrder"           -> "DELETE"
      [] T = "CancelTriggerOrder"    -> "DELETE"
      [] T = "CancelAllOrder"        -> "DELETE"
      [] T = "CancelOrderByClientId" -> "DELETE"
      [] T = "GetOrderByClientId"    -> "GET"
      [] T = "GetOrderHistory"       -> "POST"
      [] T = "PlaceTriggerOrder"     -> "POST"
      [] T = "ModifyOrderByClientId" -> "POST"

METHOD(T) ==
    CASE T = "GetOpenOrders"         -> "GET"
      [] T = "PlaceOrder"            -> "POST"
      [] T = "ModifyOrder"           -> "POST"
      [] T = "GetOrder"              -> "GET"
      [] T = "CancelOrder"           -> "DELETE"
      [] T = "CancelTriggerOrder"    -> "DELETE"
      [] T = "CancelAllOrder"        -> "DELETE"
      [] T = "CancelOrderByClientId" -> "DELETE"
      [] T = "GetOrderByClientId"    -> "GET"
      [] T = "GetOrderHistory"       -> "GET"
      [] T = "PlaceTriggerOrder"     -> "POST"
      [] T = "ModifyOrderByClientId" -> "POST"

PATH(T) ==
    CASE T = "GetOpenOrders"         -> Orders
      [] T = "PlaceOrder"            -> Orders
      [] T = "ModifyOrder"           -> OrdersIdModify
      [] T = "GetOrder"              -> OrdersId
      [] T = "CancelOrder"           -> OrdersId
      [] T = "CancelTriggerOrder"    -> ConditionalOrdersId
      [] T = "CancelAllOrder"        -> Orders
      [] T = "CancelOrderByClientId" -> OrdersByClientId
      [] T = "GetOrderByClientId"    -> OrdersByClientId
      [] T = "GetOrderHistory"       -> OrdersHistory
      [] T = "PlaceTriggerOrder"     -> ConditionalOrders
      [] T = "ModifyOrderByClientId" -> OrdersByClientIdModify

AUTH(T) ==
    CASE T = "GetOpenOrders"         -> TRUE
      [] T = "PlaceOrder"            -> TRUE
      [] T = "ModifyOrder"           -> TRUE
      [] T = "GetOrder"              -> TRUE
      [] T = "CancelOrder"           -> TRUE
      [] T = "CancelTriggerOrder"    -> TRUE
      [] T = "CancelAllOrder"        -> TRUE
      [] T = "CancelOrderByClientId" -> TRUE
      [] T = "GetOrderByClientId"    -> TRUE
      [] T = "GetOrderHistory"       -> TRUE
      [] T = "PlaceTriggerOrder"     -> TRUE
      [] T = "ModifyOrderByClientId" -> TRUE

(* Request::path() as the trait provides it: the PATH constant. *)
DefaultPath(T, self) == PATH(T)

ModifyOrder_path(self) == format(OrdersIdModify, DisplayId(self[id][2]))
(* path() not overridden: the PATH template itself. *)
GetOrder_path_Template(self) == OrdersId

GetOrder_path(self) == format(OrdersId, DisplayId(self[id][2]))
CancelOrder_path(self) == format(OrdersId, DisplayId(self[id][2]))
CancelTriggerOrder_path(self) == format(ConditionalOrdersId, DisplayId(self[id][2]))
CancelOrderByClientId_path(self) == format(OrdersByClientId, DisplayStr(self[client_id][2]))
(* The client id formatted into the template of the id-addressed path. *)
GetOrderByClientId_path_IdTemplate(self) == format(OrdersId, DisplayStr(self[client_id][2]))

GetOrderByClientId_path(self) == format(OrdersByClientId, DisplayStr(self[client_id][2]))
ModifyOrderByClientId_path(self) == format(OrdersByClientIdModify, DisplayStr(self[client_id][2]))

RequestPath(T, self) ==
    CASE T = "ModifyOrder"           -> ModifyOrder_path(self)
      [] T = "GetOrder"              -> GetOrder_path(self)
      [] T = "CancelOrder"           -> CancelOrder_path(self)
      [] T = "CancelTriggerOrder"    -> CancelTriggerOrder_path(self)
      [] T = "CancelOrderByClientId" -> CancelOrderByClientId_path(self)
      [] T = "GetOrderByClientId"    -> GetOrderByClientId_path(self)
      [] T = "ModifyOrderByClientId" -> ModifyOrderByClientId_path(self)
      [] OTHER                       -> DefaultPath(T, self)

(***************************************************************************)
(* Constructors.  Default::default() of an Option field is None.           *)
(***************************************************************************)
GetOpenOrders_all_market == (market :> None)
GetOpenOrders_with_market(m) == (market :> Some(<<"str", m>>))
GetOrder_new(order_id) == (id :> <<"Id", order_id>>)
CancelOrder_new(order_id) == (id :> <<"Id", order_id>>)
CancelTriggerOrder_new(order_id) == (id :> <<"Id", order_id>>)
CancelAllOrder_default ==
    (market :> None) @@ (side :> None) @@ (conditional_orders_only :> None)
        @@ (limit_orders_only :> None)
(* with_market that also sets a flag instead of leaving it to Default. *)
CancelAllOrder_with_market_SetsFlag(m) ==
    (market :> Some(<<"str", m>>)) @@ (limit_orders_only :> Some(<<"bool", FALSE>>))
        @@ CancelAllOrder_default

CancelAllOrder_with_market(m) == (market :> Some(<<"str", m>>)) @@ CancelAllOrder_default
CancelOrderByClientId_new(cid) == (client_id :> <<"str", cid>>)
GetOrderByClientId_new(cid) == (client_id :> <<"str", cid>>)

(***************************************************************************)
(* Deserialization (derive(Deserialize)) of a payload, a map from keys to  *)
(* wire values: a key that is absent leaves an Option field None and makes *)
(* any other field a "missing field" error; keys that name no field are    *)
(* ignored.                                                                *)
(***************************************************************************)
IsOption(f) == f.ty[1] = "Option"

(* A deserializer for which a missing Option key is an error too. *)
Deserialize_MissingOptionIsError(struct, map) ==
    LET n == Len(struct.fields)
        key == [ i \in 1..n |-> struct.fields[i].key ]
        missing == { i \in 1..n : key[i] \notin DOMAIN map }
    IN  IF missing # {}
        THEN [ ok |-> FALSE,
               err |-> <<"missing field", key[CHOOSE i \in missing : \A j \in missing : i <= j]>> ]
        ELSE [ ok |-> TRUE,
               value |-> [ name \in { struct.fields[i].name : i \in 1..n } |->
                             LET i == CHOOSE j \in 1..n : struct.fields[j].name = name
                             IN  IF ~IsOption(struct.fields[i]) THEN map[key[i]]
                                 ELSE IF map[key[i]] = Null THEN None
                                 ELSE Some(map[key[i]]) ] ]

Deserialize(struct, map) ==
    LET n == Len(struct.fields)
        key == [ i \in 1..n |-> struct.fields[i].key ]
        missing == { i \in 1..n : key[i] \notin DOMAIN map /\ ~IsOption(struct.fields[i]) }
    IN  IF missing # {}
        THEN [ ok |-> FALSE,
               err |-> <<"missing field", key[CHOOSE i \in missing : \A j \in missing : i <= j]>> ]
        ELSE [ ok |-> TRUE,
               value |-> [ name \in { struct.fields[i].name : i \in 1..n } |->
                             LET i == CHOOSE j \in 1..n : struct.fields[j].name = name
                             IN  IF key[i] \notin DOMAIN map THEN None
                                 ELSE IF ~IsOption(struct.fields[i]) THEN map[key[i]]
                                 ELSE IF map[key[i]] = Null THEN None
                                 ELSE Some(map[key[i]]) ] ]

(* The payloads the exchange may answer with for a struct.  A payload is   *)
(* given by the set of the fields whose keys it carries.                   *)
WireValue(f) ==
    LET base == IF IsOption(f) THEN Tail(f.ty) ELSE f.ty
    IN  CHOOSE x \in ValuesOf(f.name, base) : TRUE

Payload(struct, present) ==
    LET key == [ i \in 1..Len(struct.fields) |-> struct.fields[i].key ]
    IN  [ k \in { key[i] : i \in present } |->
            WireValue(struct.fields[CHOOSE i \in present : key[i] = k]) ]

OptionalFields(struct) == { i \in 1..Len(struct.fields) : IsOption(struct.fields[i]) }
RequiredFields(struct) == { i \in 1..Len(struct.fields) : ~IsOption(struct.fields[i]) }

(* Every subset of the optional keys with all the required keys, and the   *)
(* payloads that lack one required key (with all or none of the optional   *)
(* keys).                                                                  *)
PresentSets(struct) ==
    { RequiredFields(struct) \cup opt : opt \in SUBSET OptionalFields(struct) }
    \cup { (RequiredFields(struct) \ {i}) \cup opt :
             i \in RequiredFields(struct), opt \in { {}, OptionalFields(struct) } }

(***************************************************************************)
(* State machine.  A caller builds one descriptor (by a constructor or a   *)
(* struct literal); the transport then reads its method, path, auth flag   *)
(* and serialized body.                                                    *)
(***************************************************************************)
NoRequest == [T |-> "none", v |-> <<>>]
NotDecoded == [ok |-> FALSE, err |-> <<"not decoded", <<>>>>]

Init ==
    /\ pc = "idle"
    /\ call = <<"none">>
    /\ req = NoRequest
    /\ method = "none"
    /\ path = <<>>
    /\ auth = FALSE
    /\ body = <<>>
    /\ payload = <<>>
    /\ decoded = NotDecoded

Build(T, v, how) ==
    /\ pc = "idle"
    /\ pc' = "built"
    /\ req' = [T |-> T, v |-> v]
    /\ call' = how
    /\ UNCHANGED <<method, path, auth, body, payload, decoded>>

StructLiteral ==
    \E T \in Descriptors : \E v \in ValuesOfStruct(T) :
        Build(T, v, <<"literal">>)

GetOpenOrdersAllMarket ==
    Build("GetOpenOrders", GetOpenOrders_all_market, <<"GetOpenOrders::all_market">>)

GetOpenOrdersWithMarket ==
    \E m \in Markets :
        Build("GetOpenOrders", GetOpenOrders_with_market(m), <<"GetOpenOrders::with_market", m>>)

GetOrderNew ==
    \E n \in 0..MaxId :
        Build("GetOrder", GetOrder_new(n), <<"GetOrder::new", n>>)

CancelOrderNew ==
    \E n \in 0..MaxId :
        Build("CancelOrder", CancelOrder_new(n), <<"CancelOrder::new", n>>)

CancelTriggerOrderNew ==
    \E n \in 0..MaxId :
        Build("CancelTriggerOrder", CancelTriggerOrder_new(n), <<"CancelTriggerOrder::new", n>>)

CancelAllOrderWithMarket ==
    \E m \in Markets :
        Build("CancelAllOrder", CancelAllOrder_with_market(m), <<"CancelAllOrder::with_market", m>>)

CancelOrderByClientIdNew ==
    \E c \in ClientIds :
        Build("CancelOrderByClientId", CancelOrderByClientId_new(c), <<"CancelOrderByClientId::new", c>>)

GetOrderByClientIdNew ==
    \E c \in ClientIds :
        Build("GetOrderByClientId", GetOrderByClientId_new(c), <<"GetOrderByClientId::new", c>>)

Send ==
    /\ pc = "built"
    /\ pc' = "sent"
    /\ method' = METHOD(req.T)
    /\ path' = RequestPath(req.T, req.v)
    /\ auth' = AUTH(req.T)
    /\ body' = Serialize(StructOf(req.T), req.v)
    /\ UNCHANGED <<call, req, payload, decoded>>

Next ==
    \/ StructLiteral
    \/ GetOpenOrdersAllMarket
    \/ GetOpenOrdersWithMarket
    \/ GetOrderNew
    \/ CancelOrderNew
    \/ CancelTriggerOrderNew
    \/ CancelAllOrderWithMarket
    \/ CancelOrderByClientIdNew
    \/ GetOrderByClientIdNew
    \/ Send

Spec == Init /\ [][Next]_vars

(***************************************************************************)
(* Decoding of a response body into OrderInfo.                             *)
(***************************************************************************)
InitDecode ==
    /\ pc = "received"
    /\ call = <<"none">>
    /\ req = NoRequest
    /\ method = "none"
    /\ path = <<>>
    /\ auth = FALSE
    /\ body = <<>>
    /\ \E present \in PresentSets(OrderInfo) : payload = Payload(OrderInfo, present)
    /\ decoded = NotDecoded

DecodeOrderInfo ==
    /\ pc = "received"
    /\ pc' = "decoded"
    /\ decoded' = Deserialize(OrderInfo, payload)
    /\ UNCHANGED <<call, req, method, path, auth, body, payload>>

NextDecode == DecodeOrderInfo

SpecDecode == InitDecode /\ [][NextDecode]_vars

(***************************************************************************)
(* Properties.                                                             *)
(***************************************************************************)
(* A name without its underscores and in lower case: a key corresponds to  *)
(* a field when the two agree up to the naming convention.                 *)
RECURSIVE Canon(_)
Canon(s) ==
    IF s = <<>> THEN <<>>
    ELSE IF Head(s) = "_" THEN Canon(Tail(s))
    ELSE <<to_ascii_lowercase(Head(s))>> \o Canon(Tail(s))

HasUnderscore(k) == \E i \in 1..Len(k) : k[i] = "_"

IsLowerLetter(c) == \E i \in 1..Len(LowerCase) : LowerCase[i] = c

(* The value of a sequence of decimal digits. *)
RECURSIVE DecimalValue(_)
DecimalValue(d) ==
    IF d = <<>> THEN 0
    ELSE 10 * DecimalValue(SubSeq(d, 1, Len(d) - 1))
           + (CHOOSE n \in 0..9 : Digits[n + 1] = d[Len(d)])

(* d is the decimal numeral of n: digits only, no leading zero. *)
IsDecimalOf(d, n) ==
    /\ Len(d) >= 1
    /\ \A i \in 1..Len(d) : \E j \in 1..10 : Digits[j] = d[i]
    /\ (Len(d) > 1 => d[1] # "0")
    /\ DecimalValue(d) = n

Sent(T) == pc = "sent" /\ req.T = T

(* C1: the serialized body of every PlaceOrder contains the key "price";   *)
(* when the price is None the key is present and mapped to null.           *)
C1_PriceAlwaysPresent ==
    Sent("PlaceOrder") =>
        /\ <<"p","r","i","c","e">> \in DOMAIN body
        /\ (req.v[price] = None => body[<<"p","r","i","c","e">>] = Null)

C1_Witness ==
    /\ Sent("PlaceOrder")
    /\ req.v[price] = None
    /\ req.v[client_id] = None
    /\ <<"p","r","i","c","e">> \in DOMAIN body
    /\ body[<<"p","r","i","c","e">>] = Null
    /\ <<"c","l","i","e","n","t","I","d">> \notin DOMAIN body

(* C2: for every descriptor, an optional field that is None has no         *)
(* corresponding key in the serialized body, and no key of a body is       *)
(* mapped to null, except the price of PlaceOrder.                         *)
C2_AbsentFieldAbsentKey ==
    pc = "sent" =>
        LET canonKeys == { Canon(k) : k \in DOMAIN body }
        IN  /\ \A f \in DOMAIN req.v :
                   (req.v[f] = None /\ ~(req.T = "PlaceOrder" /\ f = <<"p","r","i","c","e">>))
                       => Canon(f) \notin canonKeys
            /\ \A k \in DOMAIN body :
                   body[k] = Null => (req.T = "PlaceOrder" /\ k = <<"p","r","i","c","e">>)

C2_Witness ==
    /\ Sent("PlaceTriggerOrder")
    /\ req.v[trail_value] = None
    /\ req.v[reduce_only] = None
    /\ req.v[order_price] # None
    /\ DOMAIN body = { <<"m","a","r","k","e","t">>, <<"s","i","d","e">>, <<"s","i","z","e">>,
                       <<"t","y","p","e">>, <<"t","r","i","g","g","e","r","P","r","i","c","e">>,
                       <<"r","e","t","r","y","U","n","t","i","l","F","i","l","l","e","d">>,
                       <<"o","r","d","e","r","P","r","i","c","e">> }

(* C3: path() of an id-addressed descriptor is exactly the fixed prefix,   *)
(* the identifier's text (the decimal numeral of an id, the characters of  *)
(* a client id as they are) and the fixed suffix.                          *)
C3_Prefix(T) ==
    CASE T \in {"GetOrder", "CancelOrder", "ModifyOrder"} ->
             <<"/","o","r","d","e","r","s","/">>
      [] T = "CancelTriggerOrder" ->
             <<"/","c","o","n","d","i","t","i","o","n","a","l","_","o","r","d","e","r","s","/">>
      [] T \in {"GetOrderByClientId", "CancelOrderByClientId", "ModifyOrderByClientId"} ->
             <<"/","o","r","d","e","r","s","/","b","y","_","c","l","i","e","n","t","_","i","d","/">>

C3_Suffix(T) ==
    IF T \in {"ModifyOrder", "ModifyOrderByClientId"}
    THEN <<"/","m","o","d","i","f","y">>
    ELSE <<>>

IdAddressed == {"GetOrder", "CancelOrder", "CancelTriggerOrder", "ModifyOrder"}
ClientIdAddressed == {"GetOrderByClientId", "CancelOrderByClientId", "ModifyOrderByClientId"}

C3_PathExact ==
    (pc = "sent" /\ req.T \in IdAddressed \cup ClientIdAddressed) =>
        LET pre == C3_Prefix(req.T)
            suf == C3_Suffix(req.T)
            mid == SubSeq(path, Len(pre) + 1, Len(path) - Len(suf))
        IN  /\ Len(path) >= Len(pre) + Len(suf)
            /\ SubSeq(path, 1, Len(pre)) = pre
            /\ SubSeq(path, Len(path) - Len(suf) + 1, Len(path)) = suf
            /\ IF req.T \in IdAddressed
               THEN IsDecimalOf(mid, req.v[id][2])
               ELSE mid = req.v[client_id][2]

C3_Witness ==
    /\ Sent("ModifyOrderByClientId")
    /\ req.v[client_id] = <<"str", <<"x"," ","y","%">>>>
    /\ path = <<"/","o","r","d","e","r","s","/","b","y","_","c","l","i","e","n","t","_","i","d","/",
                "x"," ","y","%","/","m","o","d","i","f","y">>

(* C4: the field interpolated into the path of an id-addressed descriptor  *)
(* (id, or client_id of the by-client-id descriptors) has no corresponding *)
(* key in the serialized body.                                             *)
C4_PathFieldNotInBody ==
    (pc = "sent" /\ req.T \in IdAddressed \cup ClientIdAddressed) =>
        LET interpolated == IF req.T \in IdAddressed
                            THEN <<"i","d">>
                            ELSE <<"c","l","i","e","n","t","I","d">>
        IN  \A k \in DOMAIN body : Canon(k) # Canon(interpolated)

C4_Witness ==
    /\ Sent("ModifyOrder")
    /\ req.v[client_id] # None
    /\ req.v[price] # None
    /\ DOMAIN body = { <<"p","r","i","c","e">>, <<"c","l","i","e","n","t","I","d">> }

OnlyStartTime ==
    /\ Sent("GetOrderHistory")
    /\ req.v[start_time] # None
    /\ req.v[end_time] = None
    /\ req.v[market] = None
    /\ req.v[side] = None
    /\ req.v[limit] = None

C7_MethodAndAuthFixed ==
    pc = "sent" =>
        /\ method = CASE req.T \in {"GetOpenOrders", "GetOrder", "GetOrderByClientId",
                                    "GetOrderHistory"} -> "GET"
                      [] req.T \in {"PlaceOrder", "ModifyOrder", "PlaceTriggerOrder",
                                    "ModifyOrderByClientId"} -> "POST"
                      [] req.T \in {"CancelOrder", "CancelTriggerOrder", "CancelAllOrder",
                                    "CancelOrderByClientId"} -> "DELETE"
        /\ auth = TRUE

C7_Witness ==
    /\ Sent("GetOrderHistory")
    /\ req.v[limit] # None
    /\ method = "GET"
    /\ auth = TRUE

(* C8: the descriptor built by CancelAllOrder::with_market(m) serializes   *)
(* to a body whose only key is market, with value m.                       *)
C8_WithMarketOnlyMarket ==
    (pc = "sent" /\ call[1] = "CancelAllOrder::with_market") =>
        /\ DOMAIN body = { <<"m","a","r","k","e","t">> }
        /\ body[<<"m","a","r","k","e","t">>] = <<"str", call[2]>>

C8_Witness ==
    /\ pc = "sent"
    /\ call = <<"CancelAllOrder::with_market", <<"B","T","C","-","P","E","R","P">>>>
    /\ body = (<<"m","a","r","k","e","t">> :> <<"str", <<"B","T","C","-","P","E","R","P">>>>)

(* C9: decoding a payload that carries all the required keys of OrderInfo  *)
(* succeeds, whichever optional keys it lacks, and every field without a   *)
(* key in the payload is None.                                             *)
C9_RequiredKeys ==
    { <<"i","d">>, <<"m","a","r","k","e","t">>, <<"t","y","p","e">>, <<"s","i","d","e">>,
      <<"s","i","z","e">>, <<"s","t","a","t","u","s">>,
      <<"c","r","e","a","t","e","d","A","t">> }

C9_MissingOptionalIsNone ==
    (pc = "decoded" /\ C9_RequiredKeys \subseteq DOMAIN payload) =>
        /\ decoded.ok
        /\ LET canonKeys == { Canon(k) : k \in DOMAIN payload }
           IN  \A f \in DOMAIN decoded.value :
                   Canon(f) \notin canonKeys => decoded.value[f] = None

C9_Witness ==
    /\ pc = "decoded"
    /\ C9_RequiredKeys \subseteq DOMAIN payload
    /\ <<"p","r","i","c","e">> \in DOMAIN payload
    /\ <<"f","i","l","l","e","d","S","i","z","e">> \notin DOMAIN payload
    /\ <<"a","v","g","F","i","l","l","P","r","i","c","e">> \notin DOMAIN payload
    /\ <<"c","l","i","e","n","t","I","d">> \notin DOMAIN payload
    /\ decoded.ok
    /\ decoded.value[filled_size] = None
    /\ decoded.value[avg_fill_price] = None
    /\ decoded.value[client_id] = None
    /\ decoded.value[price] # None

(* C10: the pair (method, path) of a request is rendered by no descriptor  *)
(* of another type, whatever its id or client id.                          *)
RenderedBy ==
    [ T \in Descriptors |->
        { <<METHOD(T), RequestPath(T, v)>> : v \in ValuesOfStruct(T) } ]

C10_MethodAndPathIdentifyOperation ==
    pc = "sent" =>
        \A T \in Descriptors \ {req.T} : <<method, path>> \notin RenderedBy[T]

C10_Witness ==
    /\ Sent("GetOrderByClientId")
    /\ req.v[client_id] = <<"str", <<"4","2">>>>
    /\ <<"GET", <<"/","o","r","d","e","r","s","/","4","2">>>> \in RenderedBy["GetOrder"]
    /\ path = <<"/","o","r","d","e","r","s","/","b","y","_","c","l","i","e","n","t","_","i","d","/","4","2">>

====
